---- MODULE Spec2Model ----
(***************************************************************************)
(* The ANSI SGR parser of enview (src/parse.go): parse / parseHTML drive   *)
(* the function-valued state machine parsePlain / parseESC / parseCSI one  *)
(* code point at a time, append() collects the styled runs and toHTML      *)
(* renders them.  Code points are modelled by their Unicode numbers, Go    *)
(* strings that the parser scans by sequences of code points, and the      *)
(* colour and HTML strings the program builds by TLA+ strings.             *)
(***************************************************************************)
EXTENDS Integers, Sequences, FiniteSets, TLC

(***************************************************************************)
(* Code points the program or its inputs name.                             *)
(***************************************************************************)
ESC == 27
LBracket == 91
LowerM == 109
Semicolon == 59
Digit0 == 48
Digit9 == 57
Minus == 45
Plus == 43
LessThan == 60
GreaterThan == 62
Ampersand == 38
Apostrophe == 39
DoubleQuote == 34
LowerA == 97
LowerB == 98
Newline == 10

(***************************************************************************)
(* Bounds of the model.                                                    *)
(***************************************************************************)
MaxLen == 6
MaxParamLen == 4
MaxCodes == 4
MaxIndex == 256
NegIndex == 1

(***************************************************************************)
(* Sequence helpers.                                                       *)
(***************************************************************************)
SeqsUpTo(S, n) == UNION {[1..k -> S] : k \in 0..n}

NonEmptySeqsUpTo(S, n) == UNION {[1..k -> S] : k \in 1..n}

(***************************************************************************)
(* The colour tables.  Go indexes them from 0; the operators below take    *)
(* the Go index.                                                           *)
(***************************************************************************)
LowColorsTable ==
  << "#303030", "#800000", "#008000", "#808000",
     "#000080", "#800080", "#008080", "#c0c0c0" >>

HighColorsTable ==
  << "#808080", "#ff0000", "#00ff00", "#ffff00",
     "#0000ff", "#ff00ff", "#00ffff", "#ffffff" >>

GrayscaleColorsTable ==
  << "#080808", "#121212", "#1c1c1c", "#262626", "#303030", "#3a3a3a",
     "#444444", "#4e4e4e", "#585858", "#626262", "#6c6c6c", "#767676",
     "#808080", "#8a8a8a", "#9e9e9e", "#9e9e9e", "#a8a8a8", "#b2b2b2",
     "#bcbcbc", "#c6c6c6", "#d0d0d0", "#dadada", "#e4e4e4", "#eeeeee" >>

CubeColorsTable == << "00", "5f", "87", "af", "d7", "ff" >>

LowColors(i) == LowColorsTable[i + 1]

HighColors(i) == HighColorsTable[i + 1]

GrayscaleColors(i) == GrayscaleColorsTable[i + 1]

CubeColors(i) == CubeColorsTable[i + 1]

color8bitShortRamp(n) ==
  IF 0 <= n /\ n <= 7 THEN LowColors(n)
  ELSE IF 8 <= n /\ n <= 15 THEN HighColors(n - 8)
  ELSE IF 16 <= n /\ n <= 231 THEN
    LET r == (n - 16) \div 36
        g == (n - 16 - 36 * r) \div 6
        bl == n - 16 - 36 * r - 6 * g
    IN "#" \o CubeColors(r) \o CubeColors(g) \o CubeColors(bl)
  ELSE IF 232 <= n /\ n < 255 THEN GrayscaleColors(n - 232)
  ELSE ""

color8bit(n) ==
  IF 0 <= n /\ n <= 7 THEN LowColors(n)
  ELSE IF 8 <= n /\ n <= 15 THEN HighColors(n - 8)
  ELSE IF 16 <= n /\ n <= 231 THEN
    LET r == (n - 16) \div 36
        g == (n - 16 - 36 * r) \div 6
        bl == n - 16 - 36 * r - 6 * g
    IN "#" \o CubeColors(r) \o CubeColors(g) \o CubeColors(bl)
  ELSE IF 232 <= n /\ n <= 255 THEN GrayscaleColors(n - 232)
  ELSE ""

(***************************************************************************)
(* strings.Split(s, ";"): the segments between the separators, one more    *)
(* than there are separators (so the empty string gives one empty segment).*)
(***************************************************************************)
RECURSIVE SplitFrom(_, _, _)
SplitFrom(s, i, cur) ==
  IF i > Len(s) THEN << cur >>
  ELSE IF s[i] = Semicolon THEN << cur >> \o SplitFrom(s, i + 1, <<>>)
  ELSE SplitFrom(s, i + 1, Append(cur, s[i]))

Split(s) == SplitFrom(s, 1, <<>>)

(***************************************************************************)
(* strconv.Atoi on a string shorter than 19 bytes: an optional sign, then  *)
(* at least one digit and nothing but digits.  (Longer strings, the only   *)
(* ones that can overflow, lie beyond the bounds of the model.)            *)
(***************************************************************************)
IsDigit(ch) == Digit0 <= ch /\ ch <= Digit9

AtoiDigits(s) ==
  IF s # <<>> /\ (s[1] = Minus \/ s[1] = Plus) THEN Tail(s) ELSE s

AtoiOk(s) ==
  /\ Len(AtoiDigits(s)) >= 1
  /\ \A i \in 1..Len(AtoiDigits(s)) : IsDigit(AtoiDigits(s)[i])

RECURSIVE DigitsValue(_, _)
DigitsValue(ds, n) ==
  IF ds = <<>> THEN n ELSE DigitsValue(Tail(ds), n * 10 + (Head(ds) - Digit0))

Atoi(s) ==
  LET n == DigitsValue(AtoiDigits(s), 0)
  IN IF s[1] = Minus THEN 0 - n ELSE n

(***************************************************************************)
(* The printable ASCII characters, code points 32..95 and 97..126 in       *)
(* order: Chr gives the one-character Go string of a code point            *)
(* (WriteRune, String()) and Str the code points of a written-out string.  *)
(* The escape code point has no printable form and is shown in caret       *)
(* notation.                                                               *)
(***************************************************************************)
AsciiTable ==
  <<
     " ", "!", "\"", "#", "$", "%", "&", "'", "(", ")", "*", "+",
     ",", "-", ".", "/", "0", "1", "2", "3", "4", "5", "6", "7",
     "8", "9", ":", ";", "<", "=", ">", "?", "@", "A", "B", "C",
     "D", "E", "F", "G", "H", "I", "J", "K", "L", "M", "N", "O",
     "P", "Q", "R", "S", "T", "U", "V", "W", "X", "Y", "Z", "[",
     "\\", "]", "^", "_"
  >>

LowerTable ==
  << "a", "b", "c", "d", "e", "f", "g", "h", "i", "j", "k", "l", "m",
     "n", "o", "p", "q", "r", "s", "t", "u", "v", "w", "x", "y", "z",
     "{", "|", "}", "~" >>

Printable == (32..126) \ {96}

Chr(ch) ==
  IF ch = ESC THEN "^["
  ELSE IF ch = Newline THEN "\n"
  ELSE IF ch < 96 THEN AsciiTable[ch - 31]
  ELSE LowerTable[ch - 96]

Ord(s) == CHOOSE ch \in Printable : Chr(ch) = s

Str(ss) == [i \in 1..Len(ss) |-> Ord(ss[i])]

RECURSIVE String(_)
String(rs) == IF rs = <<>> THEN "" ELSE Chr(Head(rs)) \o String(Tail(rs))

(***************************************************************************)
(* html.EscapeString: the five reserved characters become entities.        *)
(***************************************************************************)
EscapeRune(ch) ==
  IF ch = Ampersand THEN "&amp;"
  ELSE IF ch = Apostrophe THEN "&#39;"
  ELSE IF ch = LessThan THEN "&lt;"
  ELSE IF ch = GreaterThan THEN "&gt;"
  ELSE IF ch = DoubleQuote THEN "&#34;"
  ELSE Chr(ch)

RECURSIVE EscapeString(_)
EscapeString(rs) ==
  IF rs = <<>> THEN "" ELSE EscapeRune(Head(rs)) \o EscapeString(Tail(rs))

(***************************************************************************)
(* strings.Join of a list of strings.                                      *)
(***************************************************************************)
RECURSIVE Join(_, _)
Join(ss, sep) ==
  IF ss = <<>> THEN ""
  ELSE IF Len(ss) = 1 THEN ss[1]
  ELSE ss[1] \o sep \o Join(Tail(ss), sep)

(***************************************************************************)
(* type text and text.toHTML.                                              *)
(***************************************************************************)
Text(t, bgc, fgc, bd) == [text |-> t, bg |-> bgc, fg |-> fgc, bold |-> bd]

toHTMLStylesColorFirst(t) ==
  (IF t.fg # "" THEN << "color: " \o t.fg >> ELSE <<>>)
  \o (IF t.bg # "" THEN << "background-color: " \o t.bg >> ELSE <<>>)
  \o (IF t.bold THEN << "font-weight: bold" >> ELSE <<>>)

toHTMLStyles(t) ==
  (IF t.bg # "" THEN << "background-color: " \o t.bg >> ELSE <<>>)
  \o (IF t.fg # "" THEN << "color: " \o t.fg >> ELSE <<>>)
  \o (IF t.bold THEN << "font-weight: bold" >> ELSE <<>>)

toHTMLAlwaysSpan(t) ==
  "<span style=\"" \o Join(toHTMLStyles(t), "; ") \o "\">"
    \o EscapeString(t.text) \o "</span>"

toHTML(t) ==
  LET escaped == EscapeString(t.text)
      styles == toHTMLStyles(t)
  IN IF Len(styles) > 0
     THEN "<span style=\"" \o Join(styles, "; ") \o "\">" \o escaped \o "</span>"
     ELSE escaped

RECURSIVE JoinHTMLNewline(_)
JoinHTMLNewline(runs) ==
  IF runs = <<>> THEN ""
  ELSE IF Len(runs) = 1 THEN toHTML(runs[1])
  ELSE toHTML(runs[1]) \o "\n" \o JoinHTMLNewline(Tail(runs))

RECURSIVE JoinHTML(_)
JoinHTML(runs) ==
  IF runs = <<>> THEN "" ELSE toHTML(Head(runs)) \o JoinHTML(Tail(runs))

(***************************************************************************)
(* The style state of the parser (p.bg, p.fg, p.bold) as a record, and the *)
(* interpretation of one SGR parameter list: the loop of parseCSI over     *)
(* codes.  i is Go's index plus one.  The result carries the style reached *)
(* and the error, if any, that ended the loop.                             *)
(***************************************************************************)
Style(bgc, fgc, bd) == [bg |-> bgc, fg |-> fgc, bold |-> bd]

resetStyleKeepsBold(st) == Style("", "", st.bold)

resetStyle(st) == Style("", "", FALSE)

extendedOkStrict(codes, i) == i < Len(codes) - 2

extendedOk(codes, i) == i < Len(codes) - 1

RECURSIVE sgrLoopHighSwapped(_, _, _)
sgrLoopHighSwapped(codes, i, st) ==
  IF i > Len(codes) THEN [style |-> st, err |-> "nil"]
  ELSE LET cd == codes[i] IN
    IF cd = 0 THEN sgrLoopHighSwapped(codes, i + 1, resetStyle(st))
    ELSE IF cd = 1 THEN sgrLoopHighSwapped(codes, i + 1, [st EXCEPT !.bold = TRUE])
    ELSE IF 30 <= cd /\ cd <= 37
      THEN sgrLoopHighSwapped(codes, i + 1, [st EXCEPT !.fg = LowColors(cd - 30)])
    ELSE IF cd = 38 THEN
      IF extendedOk(codes, i)
      THEN IF codes[i + 1] = 5
           THEN sgrLoopHighSwapped(codes, i + 3, [st EXCEPT !.fg = color8bit(codes[i + 2])])
           ELSE sgrLoopHighSwapped(codes, i + 2, st)
      ELSE [style |-> st, err |-> "parseError"]
    ELSE IF 40 <= cd /\ cd <= 47
      THEN sgrLoopHighSwapped(codes, i + 1, [st EXCEPT !.bg = LowColors(cd - 40)])
    ELSE IF cd = 48 THEN
      IF extendedOk(codes, i)
      THEN IF codes[i + 1] = 5
           THEN sgrLoopHighSwapped(codes, i + 3, [st EXCEPT !.bg = color8bit(codes[i + 2])])
           ELSE sgrLoopHighSwapped(codes, i + 2, st)
      ELSE [style |-> st, err |-> "parseError"]
    ELSE IF 90 <= cd /\ cd <= 97
      THEN sgrLoopHighSwapped(codes, i + 1, [st EXCEPT !.bg = HighColors(cd - 90)])
    ELSE IF 100 <= cd /\ cd <= 107
      THEN sgrLoopHighSwapped(codes, i + 1, [st EXCEPT !.bg = HighColors(cd - 100)])
    ELSE sgrLoopHighSwapped(codes, i + 1, st)

RECURSIVE sgrLoopReinterpretsIndex(_, _, _)
sgrLoopReinterpretsIndex(codes, i, st) ==
  IF i > Len(codes) THEN [style |-> st, err |-> "nil"]
  ELSE LET cd == codes[i] IN
    IF cd = 0 THEN sgrLoopReinterpretsIndex(codes, i + 1, resetStyle(st))
    ELSE IF cd = 1 THEN sgrLoopReinterpretsIndex(codes, i + 1, [st EXCEPT !.bold = TRUE])
    ELSE IF 30 <= cd /\ cd <= 37
      THEN sgrLoopReinterpretsIndex(codes, i + 1, [st EXCEPT !.fg = LowColors(cd - 30)])
    ELSE IF cd = 38 THEN
      IF extendedOk(codes, i)
      THEN IF codes[i + 1] = 5
           THEN sgrLoopReinterpretsIndex(codes, i + 2, [st EXCEPT !.fg = color8bit(codes[i + 2])])
           ELSE sgrLoopReinterpretsIndex(codes, i + 2, st)
      ELSE [style |-> st, err |-> "parseError"]
    ELSE IF 40 <= cd /\ cd <= 47
      THEN sgrLoopReinterpretsIndex(codes, i + 1, [st EXCEPT !.bg = LowColors(cd - 40)])
    ELSE IF cd = 48 THEN
      IF extendedOk(codes, i)
      THEN IF codes[i + 1] = 5
           THEN sgrLoopReinterpretsIndex(codes, i + 2, [st EXCEPT !.bg = color8bit(codes[i + 2])])
           ELSE sgrLoopReinterpretsIndex(codes, i + 2, st)
      ELSE [style |-> st, err |-> "parseError"]
    ELSE IF 90 <= cd /\ cd <= 97
      THEN sgrLoopReinterpretsIndex(codes, i + 1, [st EXCEPT !.fg = HighColors(cd - 90)])
    ELSE IF 100 <= cd /\ cd <= 107
      THEN sgrLoopReinterpretsIndex(codes, i + 1, [st EXCEPT !.bg = HighColors(cd - 100)])
    ELSE sgrLoopReinterpretsIndex(codes, i + 1, st)

RECURSIVE sgrLoopKeepsOnEmpty(_, _, _)
sgrLoopKeepsOnEmpty(codes, i, st) ==
  IF i > Len(codes) THEN [style |-> st, err |-> "nil"]
  ELSE LET cd == codes[i] IN
    IF cd = 0 THEN sgrLoopKeepsOnEmpty(codes, i + 1, resetStyle(st))
    ELSE IF cd = 1 THEN sgrLoopKeepsOnEmpty(codes, i + 1, [st EXCEPT !.bold = TRUE])
    ELSE IF 30 <= cd /\ cd <= 37
      THEN sgrLoopKeepsOnEmpty(codes, i + 1, [st EXCEPT !.fg = LowColors(cd - 30)])
    ELSE IF cd = 38 THEN
      IF extendedOk(codes, i)
      THEN IF codes[i + 1] = 5
           THEN sgrLoopKeepsOnEmpty(codes, i + 3,
                  IF color8bit(codes[i + 2]) = "" THEN st
                  ELSE [st EXCEPT !.fg = color8bit(codes[i + 2])])
           ELSE sgrLoopKeepsOnEmpty(codes, i + 2, st)
      ELSE [style |-> st, err |-> "parseError"]
    ELSE IF 40 <= cd /\ cd <= 47
      THEN sgrLoopKeepsOnEmpty(codes, i + 1, [st EXCEPT !.bg = LowColors(cd - 40)])
    ELSE IF cd = 48 THEN
      IF extendedOk(codes, i)
      THEN IF codes[i + 1] = 5
           THEN sgrLoopKeepsOnEmpty(codes, i + 3,
                  IF color8bit(codes[i + 2]) = "" THEN st
                  ELSE [st EXCEPT !.bg = color8bit(codes[i + 2])])
           ELSE sgrLoopKeepsOnEmpty(codes, i + 2, st)
      ELSE [style |-> st, err |-> "parseError"]
    ELSE IF 90 <= cd /\ cd <= 97
      THEN sgrLoopKeepsOnEmpty(codes, i + 1, [st EXCEPT !.fg = HighColors(cd - 90)])
    ELSE IF 100 <= cd /\ cd <= 107
      THEN sgrLoopKeepsOnEmpty(codes, i + 1, [st EXCEPT !.bg = HighColors(cd - 100)])
    ELSE sgrLoopKeepsOnEmpty(codes, i + 1, st)

RECURSIVE sgrLoopSkipsNothing(_, _, _)
sgrLoopSkipsNothing(codes, i, st) ==
  IF i > Len(codes) THEN [style |-> st, err |-> "nil"]
  ELSE LET cd == codes[i] IN
    IF cd = 0 THEN sgrLoopSkipsNothing(codes, i + 1, resetStyle(st))
    ELSE IF cd = 1 THEN sgrLoopSkipsNothing(codes, i + 1, [st EXCEPT !.bold = TRUE])
    ELSE IF 30 <= cd /\ cd <= 37
      THEN sgrLoopSkipsNothing(codes, i + 1, [st EXCEPT !.fg = LowColors(cd - 30)])
    ELSE IF cd = 38 THEN
      IF extendedOk(codes, i)
      THEN IF codes[i + 1] = 5
           THEN sgrLoopSkipsNothing(codes, i + 3, [st EXCEPT !.fg = color8bit(codes[i + 2])])
           ELSE sgrLoopSkipsNothing(codes, i + 1, st)
      ELSE [style |-> st, err |-> "parseError"]
    ELSE IF 40 <= cd /\ cd <= 47
      THEN sgrLoopSkipsNothing(codes, i + 1, [st EXCEPT !.bg = LowColors(cd - 40)])
    ELSE IF cd = 48 THEN
      IF extendedOk(codes, i)
      THEN IF codes[i + 1] = 5
           THEN sgrLoopSkipsNothing(codes, i + 3, [st EXCEPT !.bg = color8bit(codes[i + 2])])
           ELSE sgrLoopSkipsNothing(codes, i + 1, st)
      ELSE [style |-> st, err |-> "parseError"]
    ELSE IF 90 <= cd /\ cd <= 97
      THEN sgrLoopSkipsNothing(codes, i + 1, [st EXCEPT !.fg = HighColors(cd - 90)])
    ELSE IF 100 <= cd /\ cd <= 107
      THEN sgrLoopSkipsNothing(codes, i + 1, [st EXCEPT !.bg = HighColors(cd - 100)])
    ELSE sgrLoopSkipsNothing(codes, i + 1, st)

RECURSIVE sgrLoop(_, _, _)
sgrLoop(codes, i, st) ==
  IF i > Len(codes) THEN [style |-> st, err |-> "nil"]
  ELSE LET cd == codes[i] IN
    IF cd = 0 THEN sgrLoop(codes, i + 1, resetStyle(st))
    ELSE IF cd = 1 THEN sgrLoop(codes, i + 1, [st EXCEPT !.bold = TRUE])
    ELSE IF 30 <= cd /\ cd <= 37
      THEN sgrLoop(codes, i + 1, [st EXCEPT !.fg = LowColors(cd - 30)])
    ELSE IF cd = 38 THEN
      IF extendedOk(codes, i)
      THEN IF codes[i + 1] = 5
           THEN sgrLoop(codes, i + 3, [st EXCEPT !.fg = color8bit(codes[i + 2])])
           ELSE sgrLoop(codes, i + 2, st)
      ELSE [style |-> st, err |-> "parseError"]
    ELSE IF 40 <= cd /\ cd <= 47
      THEN sgrLoop(codes, i + 1, [st EXCEPT !.bg = LowColors(cd - 40)])
    ELSE IF cd = 48 THEN
      IF extendedOk(codes, i)
      THEN IF codes[i + 1] = 5
           THEN sgrLoop(codes, i + 3, [st EXCEPT !.bg = color8bit(codes[i + 2])])
           ELSE sgrLoop(codes, i + 2, st)
      ELSE [style |-> st, err |-> "parseError"]
    ELSE IF 90 <= cd /\ cd <= 97
      THEN sgrLoop(codes, i + 1, [st EXCEPT !.fg = HighColors(cd - 90)])
    ELSE IF 100 <= cd /\ cd <= 107
      THEN sgrLoop(codes, i + 1, [st EXCEPT !.bg = HighColors(cd - 100)])
    ELSE sgrLoop(codes, i + 1, st)

(***************************************************************************)
(* The 'm' branch of parseCSI on parameter buffer buf under style st: the  *)
(* segments are converted first, and the first one Atoi rejects ends the   *)
(* call with Atoi's error before any command is interpreted.               *)
(***************************************************************************)
csiCodes(buf) == [i \in 1..Len(Split(buf)) |-> Atoi(Split(buf)[i])]

csiFinal(buf, st) ==
  IF \E i \in 1..Len(Split(buf)) : ~AtoiOk(Split(buf)[i])
  THEN [style |-> st, err |-> "NumError"]
  ELSE sgrLoop(csiCodes(buf), 1, st)

(***************************************************************************)
(* The inputs.  strconv.Itoa and the written form of an SGR sequence build *)
(* them; the families are: every string over a small alphabet up to MaxLen *)
(* code points, every parameter buffer over a small alphabet up to         *)
(* MaxParamLen, every plain / 38;5 / 48;5 index from -NegIndex to MaxIndex *)
(* under a fully set style, every list of up to MaxCodes codes, 38 / 48    *)
(* followed by an entry other than 5 and one more entry, pairs of          *)
(* sequences with and without text around them, and the inputs of          *)
(* TestParse.                                                              *)
(***************************************************************************)
RECURSIVE ItoaNat(_)
ItoaNat(n) ==
  IF n < 10 THEN << Digit0 + n >>
  ELSE ItoaNat(n \div 10) \o << Digit0 + (n % 10) >>

Itoa(n) == IF n < 0 THEN << Minus >> \o ItoaNat(0 - n) ELSE ItoaNat(n)

RECURSIVE JoinCodes(_)
JoinCodes(codes) ==
  IF codes = <<>> THEN <<>>
  ELSE IF Len(codes) = 1 THEN Itoa(codes[1])
  ELSE Itoa(codes[1]) \o << Semicolon >> \o JoinCodes(Tail(codes))

SGR(codes) == << ESC, LBracket >> \o JoinCodes(codes) \o << LowerM >>

ShortAlphabet == {ESC, LBracket, LowerM, Digit0 + 1, LessThan}

ShortInputs == SeqsUpTo(ShortAlphabet, MaxLen)

ParamAlphabet == {Digit0 + 1, Semicolon, Minus, Plus, LowerA}

ParamInputs ==
  { << ESC, LBracket >> \o q \o << LowerM, LowerA >> :
      q \in SeqsUpTo(ParamAlphabet, MaxParamLen) }

IndexPrefixes == { <<>>, << 38, 5 >>, << 48, 5 >> }

IndexInputs ==
  { SGR(<< 1, 31, 44 >>) \o SGR(q \o << n >>) \o << LowerA >> :
      q \in IndexPrefixes, n \in (0 - NegIndex)..MaxIndex }

SkipCodes == {0, 2, 31}

SkipNext == {0, 5, 31, 44, 96}

SkipInputs ==
  { SGR(<< 1, 36, 44 >>) \o SGR(<< q, x, y >>) \o << LowerA >> :
      q \in {38, 48}, x \in SkipCodes, y \in SkipNext }

ListCodes == {0, 1, 5, 31, 38, 44, 48}

ListInputs ==
  { << LowerA >> \o SGR(l) \o << LowerB >> :
      l \in NonEmptySeqsUpTo(ListCodes, MaxCodes) }

PairFirst == NonEmptySeqsUpTo({0, 1, 31, 44}, 2) \cup { << 1, 31, 44 >> }

PairSecond == { << 0 >>, << 1 >>, << 31 >>, << 44 >>, << 7 >> }

PairTexts == { <<>>, << LowerA >> }

PairInputs ==
  { t1 \o SGR(l1) \o t2 \o SGR(l2) \o t3 :
      t1 \in PairTexts, t2 \in PairTexts, t3 \in PairTexts,
      l1 \in PairFirst, l2 \in PairSecond }

Prefixes(s) == { SubSeq(s, 1, k) : k \in 0..Len(s) }

CutInputs == UNION { Prefixes(s) : s \in PairInputs }

TestInputs ==
  { <<>>,
    Str(<< "p", "l", "a", "i", "n" >>),
    Str(<< "s", "o", "m", "e" >>) \o SGR(<< 36, 44 >>)
      \o Str(<< "c", "o", "l", "o", "r" >>),
    Str(<< "s", "o", "m", "e" >>) \o SGR(<< 96, 104 >>)
      \o Str(<< "c", "o", "l", "o", "r" >>),
    SGR(<< 38, 5, 1, 48, 5, 2 >>) \o Str(<< "w", "o", "r", "d" >>),
    SGR(<< 38, 5, 8, 48, 5, 9 >>) \o Str(<< "w", "o", "r", "d" >>),
    SGR(<< 38, 5, 16 >>) \o Str(<< "w", "o", "r", "d" >>),
    SGR(<< 38, 5, 42 >>) \o Str(<< "w", "o", "r", "d" >>),
    SGR(<< 38, 5, 243 >>) \o Str(<< "w", "o", "r", "d" >>),
    Str(<< "f", "o", "o" >>) \o SGR(<< 31 >>) \o Str(<< "b", "a", "r" >>)
      \o SGR(<< 0 >>) \o Str(<< "b", "a", "z" >>),
    SGR(<< 1 >>) \o Str(<< "f", "o", "o" >>),
    SGR(<< 1 >>) \o SGR(<< 33 >>) \o Str(<< "f", "o", "o" >>) }

Inputs ==
  ShortInputs \cup ParamInputs \cup IndexInputs \cup ListInputs
    \cup SkipInputs \cup CutInputs \cup TestInputs

(***************************************************************************)
(* The state of one invocation.                                            *)
(*   in      the input, as code points          pos   code points consumed *)
(*   entry   the entry point called: "parse" or "parseHTML"                *)
(*   pc      "call" before the call, "loop" inside parser.parse,           *)
(*           "parsed" when parser.parse has returned, "returned" at the end*)
(*   state   p.state: "parsePlain", "parseESC", "parseCSI" or "nil"        *)
(*   ts b c bg fg bold   the fields of the parser                          *)
(*   err     the error of parser.parse: "nil", "parseError" (the package's *)
(*           parseError) or "NumError" (the error of strconv.Atoi)         *)
(*   retTs retHTML retErr   what the entry point returned                  *)
(***************************************************************************)
VARIABLES in, pos, entry, pc, state, ts, b, c, bg, fg, bold, err,
          retTs, retHTML, retErr

(***************************************************************************)
(* The state of one call of func grep (the search of a directory).         *)
(*   entries  the directory listing        query   the text searched for   *)
(*   gpc      "idle" (no call), "call", "range" in the loop over the       *)
(*            entries, "wait" in wg.Wait, "returned"                       *)
(*   gi       the entry the loop is at     grs     the results appended    *)
(*   recs     the grepResult records, by the entry they were made for      *)
(*   wg       the WaitGroup counter                                        *)
(*   tpc tline tpos thtml parsers   per goroutine: its position, the line  *)
(*            it scans, the code points its parser has consumed, its local *)
(*            html, and the parser of the parse call it is in              *)
(*   gret gerr   what grep returns                                         *)
(***************************************************************************)
VARIABLES entries, query, gpc, gi, grs, recs, wg,
          tpc, tline, tpos, thtml, parsers, gret, gerr

grepVars == << entries, query, gpc, gi, grs, recs, wg,
               tpc, tline, tpos, thtml, parsers, gret, gerr >>

grepIdle ==
  /\ entries = <<>>
  /\ query = <<>>
  /\ gpc = "idle"
  /\ gi = 0
  /\ grs = <<>>
  /\ recs = <<>>
  /\ wg = 0
  /\ tpc = <<>>
  /\ tline = <<>>
  /\ tpos = <<>>
  /\ thtml = <<>>
  /\ parsers = <<>>
  /\ gret = <<>>
  /\ gerr = "nil"

vars == << in, pos, entry, pc, state, ts, b, c, bg, fg, bold, err,
           retTs, retHTML, retErr, grepVars >>

parserFields == << state, ts, b, c, bg, fg, bold >>

returns == << retTs, retHTML, retErr >>

Init ==
  /\ in \in Inputs
  /\ pos = 0
  /\ entry = "none"
  /\ pc = "call"
  /\ state = "nil"
  /\ ts = <<>>
  /\ b = <<>>
  /\ c = <<>>
  /\ bg = ""
  /\ fg = ""
  /\ bold = FALSE
  /\ err = "nil"
  /\ retTs = <<>>
  /\ retHTML = ""
  /\ retErr = "nil"
  /\ grepIdle

(***************************************************************************)
(* parser.append: the pending text under the current style joins the runs  *)
(* and the text buffer is reset.  The result is the new p.ts and p.b.      *)
(***************************************************************************)
appendNoReset(runs, buf, bgc, fgc, bd) ==
  [ts |-> Append(runs, Text(buf, bgc, fgc, bd)), b |-> buf]

append(runs, buf, bgc, fgc, bd) ==
  [ts |-> Append(runs, Text(buf, bgc, fgc, bd)), b |-> <<>>]

(***************************************************************************)
(* func parse on the zero-length input: an empty list, the parser is never *)
(* built.                                                                  *)
(***************************************************************************)
emptyInputNever(s) == Len(s) < 0

emptyInput(s) == Len(s) = 0

parseEmpty ==
  /\ pc = "call"
  /\ emptyInput(in)
  /\ entry' = "parse"
  /\ retTs' = <<>>
  /\ retErr' = "nil"
  /\ pc' = "returned"
  /\ UNCHANGED << grepVars, in, pos, parserFields, err, retHTML >>

(***************************************************************************)
(* func parse and func parseHTML up to the first statements of             *)
(* parser.parse: a fresh parser, p.ts empty, p.state = p.parsePlain.       *)
(***************************************************************************)
parseCall ==
  /\ pc = "call"
  /\ ~emptyInput(in)
  /\ entry' = "parse"
  /\ ts' = <<>>
  /\ state' = "parsePlain"
  /\ pc' = "loop"
  /\ UNCHANGED << grepVars, in, pos, b, c, bg, fg, bold, err, returns >>

parseHTMLCall ==
  /\ pc = "call"
  /\ entry' = "parseHTML"
  /\ ts' = <<>>
  /\ state' = "parsePlain"
  /\ pc' = "loop"
  /\ UNCHANGED << grepVars, in, pos, b, c, bg, fg, bold, err, returns >>

(***************************************************************************)
(* One turn of the loop of parser.parse calls p.state on the next code     *)
(* point; an error ends parser.parse at once.                              *)
(***************************************************************************)
plainFlushNever(buf) == FALSE

plainFlushAlways(buf) == TRUE

plainFlush(buf) == Len(buf) > 0

parsePlain ==
  /\ pc = "loop"
  /\ pos < Len(in)
  /\ state = "parsePlain"
  /\ IF in[pos + 1] = ESC
     THEN /\ ts' = IF plainFlush(b) THEN append(ts, b, bg, fg, bold).ts ELSE ts
          /\ b' = IF plainFlush(b) THEN append(ts, b, bg, fg, bold).b ELSE b
          /\ state' = "parseESC"
     ELSE /\ b' = Append(b, in[pos + 1])
          /\ state' = "parsePlain"
          /\ ts' = ts
  /\ pos' = pos + 1
  /\ UNCHANGED << grepVars, in, entry, pc, c, bg, fg, bold, err, returns >>

escOkLoose(ch) == ch = LBracket \/ ch = ESC

escOk(ch) == ch = LBracket

parseESC ==
  /\ pc = "loop"
  /\ pos < Len(in)
  /\ state = "parseESC"
  /\ IF escOk(in[pos + 1])
     THEN /\ state' = "parseCSI"
          /\ err' = "nil"
          /\ pc' = "loop"
     ELSE /\ state' = "nil"
          /\ err' = "parseError"
          /\ pc' = "parsed"
  /\ pos' = pos + 1
  /\ UNCHANGED << grepVars, in, entry, ts, b, c, bg, fg, bold, returns >>

csiEnd(ch) == ch = LowerM

parseCSIKeepsParams ==
  /\ pc = "loop"
  /\ pos < Len(in)
  /\ state = "parseCSI"
  /\ IF csiEnd(in[pos + 1])
     THEN LET r == csiFinal(c, Style(bg, fg, bold)) IN
          /\ c' = c
          /\ bg' = r.style.bg
          /\ fg' = r.style.fg
          /\ bold' = r.style.bold
          /\ err' = r.err
          /\ state' = IF r.err = "nil" THEN "parsePlain" ELSE "nil"
          /\ pc' = IF r.err = "nil" THEN "loop" ELSE "parsed"
     ELSE /\ c' = Append(c, in[pos + 1])
          /\ state' = "parseCSI"
          /\ UNCHANGED << bg, fg, bold, err, pc >>
  /\ pos' = pos + 1
  /\ UNCHANGED << grepVars, in, entry, ts, b, returns >>

parseCSI ==
  /\ pc = "loop"
  /\ pos < Len(in)
  /\ state = "parseCSI"
  /\ IF csiEnd(in[pos + 1])
     THEN LET r == csiFinal(c, Style(bg, fg, bold)) IN
          /\ c' = <<>>
          /\ bg' = r.style.bg
          /\ fg' = r.style.fg
          /\ bold' = r.style.bold
          /\ err' = r.err
          /\ state' = IF r.err = "nil" THEN "parsePlain" ELSE "nil"
          /\ pc' = IF r.err = "nil" THEN "loop" ELSE "parsed"
     ELSE /\ c' = Append(c, in[pos + 1])
          /\ state' = "parseCSI"
          /\ UNCHANGED << bg, fg, bold, err, pc >>
  /\ pos' = pos + 1
  /\ UNCHANGED << grepVars, in, entry, ts, b, returns >>

(***************************************************************************)
(* The end of the loop of parser.parse: p.append() and return, whatever    *)
(* the state the input ended in.                                           *)
(***************************************************************************)
parseEnd ==
  /\ pc = "loop"
  /\ pos = Len(in)
  /\ ts' = append(ts, b, bg, fg, bold).ts
  /\ b' = append(ts, b, bg, fg, bold).b
  /\ pc' = "parsed"
  /\ UNCHANGED << grepVars, in, pos, entry, state, c, bg, fg, bold, err, returns >>

(***************************************************************************)
(* func parse after parser.parse: return p.ts, err.                        *)
(***************************************************************************)
parseResult(runs, e) == runs

parseReturn ==
  /\ pc = "parsed"
  /\ entry = "parse"
  /\ retTs' = parseResult(ts, err)
  /\ retErr' = err
  /\ pc' = "returned"
  /\ UNCHANGED << grepVars, in, pos, entry, parserFields, err, retHTML >>

(***************************************************************************)
(* func parseHTML after parser.parse: the empty string with the error, or  *)
(* the joined renderings of the runs.                                      *)
(***************************************************************************)
parseHTMLReturn ==
  /\ pc = "parsed"
  /\ entry = "parseHTML"
  /\ retHTML' = IF err # "nil" THEN "" ELSE JoinHTML(ts)
  /\ retErr' = err
  /\ pc' = "returned"
  /\ UNCHANGED << grepVars, in, pos, entry, parserFields, err, retTs >>

Next ==
  \/ parseEmpty
  \/ parseCall
  \/ parseHTMLCall
  \/ parsePlain
  \/ parseESC
  \/ parseCSI
  \/ parseEnd
  \/ parseReturn
  \/ parseHTMLReturn

Spec == Init /\ [][Next]_vars

(***************************************************************************)
(* Notions the properties are stated in.                                   *)
(***************************************************************************)
Returned(e) == pc = "returned" /\ entry = e

HasESC(s) == \E k \in 1..Len(s) : s[k] = ESC

DefaultStyle(t) == t.bg = "" /\ t.fg = "" /\ t.bold = FALSE

\* The plain-text renderer: the texts of the runs, concatenated in order.
RECURSIVE PlainText(_)
PlainText(runs) ==
  IF runs = <<>> THEN <<>> ELSE Head(runs).text \o PlainText(Tail(runs))

\* The first 'm' of s after position j, 0 when there is none.
FirstMAfter(s, j) ==
  IF \E k \in (j + 1)..Len(s) : s[k] = LowerM
  THEN CHOOSE k \in (j + 1)..Len(s) :
         /\ s[k] = LowerM
         /\ \A l \in (j + 1)..(k - 1) : s[l] # LowerM
  ELSE 0

\* s with every complete ESC [ params m removed, and with a trailing
\* unterminated escape sequence removed.
RECURSIVE StripSGR(_)
StripSGR(s) ==
  IF s = <<>> THEN <<>>
  ELSE IF Head(s) # ESC THEN << Head(s) >> \o StripSGR(Tail(s))
  ELSE IF Len(s) >= 2 /\ s[2] = LBracket /\ FirstMAfter(s, 2) # 0
    THEN StripSGR(SubSeq(s, FirstMAfter(s, 2) + 1, Len(s)))
  ELSE <<>>

\* The last escape introducer among the first n code points of s (0: none),
\* and what follows the sequence it starts.
LastESC(s, n) ==
  IF \E k \in 1..n : s[k] = ESC
  THEN CHOOSE k \in 1..n : s[k] = ESC /\ \A l \in (k + 1)..n : s[l] # ESC
  ELSE 0

TrailingText(s) ==
  IF LastESC(s, Len(s)) = 0 THEN s
  ELSE SubSeq(s, FirstMAfter(s, LastESC(s, Len(s))) + 1, Len(s))

(***************************************************************************)
(* C1: whenever parse succeeds, the texts of the returned runs,            *)
(* concatenated in order, are the input with every complete ESC [ params m *)
(* removed and a trailing unterminated escape sequence removed.            *)
(***************************************************************************)
C1_PlainTextIsStrippedInput ==
  (Returned("parse") /\ retErr = "nil") => PlainText(retTs) = StripSGR(in)

C1_Witness ==
  /\ Returned("parse")
  /\ retErr = "nil"
  /\ state = "parseCSI"
  /\ Len(retTs) >= 3
  /\ retTs[1].text # <<>>
  /\ retTs[2].text # <<>>
  /\ retTs[2].bold
  /\ StripSGR(in) # in

(***************************************************************************)
(* C2 as claimed: on every input without an escape code point parse gives  *)
(* exactly one run, the whole input under the default style, and parseHTML *)
(* gives the HTML-escaped input without a span.                            *)
(***************************************************************************)
C2_OneRunForPlainInput ==
  /\ (Returned("parse") /\ ~HasESC(in)) =>
        /\ retErr = "nil"
        /\ retTs = << Text(in, "", "", FALSE) >>
  /\ (Returned("parseHTML") /\ ~HasESC(in)) =>
        /\ retErr = "nil"
        /\ retHTML = EscapeString(in)

(***************************************************************************)
(* C2 amended: the same for parse on every non-empty input without an      *)
(* escape code point (the zero-length input gives no run at all), and for  *)
(* parseHTML on every input without one.                                   *)
(***************************************************************************)
C2_OneRunForNonEmptyPlainInput ==
  /\ (Returned("parse") /\ ~HasESC(in) /\ in # <<>>) =>
        /\ retErr = "nil"
        /\ retTs = << Text(in, "", "", FALSE) >>
  /\ (Returned("parseHTML") /\ ~HasESC(in)) =>
        /\ retErr = "nil"
        /\ retHTML = EscapeString(in)

C2_Witness ==
  /\ Returned("parseHTML")
  /\ ~HasESC(in)
  /\ Len(in) = 3
  /\ retHTML = "m&lt;1"

(***************************************************************************)
(* C3: parse of the zero-length input returns no run and no error; a       *)
(* non-empty input that ends in parsePlain ends with one final run made of *)
(* the text after the last sequence under the current style, even when     *)
(* that text is empty, so that a non-empty input made only of complete     *)
(* sequences gives exactly one run, of empty text.                         *)
(***************************************************************************)
C3_EmptyInputAndFinalRun ==
  /\ (Returned("parse") /\ in = <<>>) => (retTs = <<>> /\ retErr = "nil")
  /\ (Returned("parse") /\ in # <<>> /\ retErr = "nil" /\ state = "parsePlain") =>
        /\ Len(retTs) >= 1
        /\ retTs[Len(retTs)] = Text(TrailingText(in), bg, fg, bold)
        /\ StripSGR(in) = <<>> => retTs = << Text(<<>>, bg, fg, bold) >>

C3_Witness ==
  /\ Returned("parse")
  /\ in # <<>>
  /\ StripSGR(in) = <<>>
  /\ state = "parsePlain"
  /\ retTs = << Text(<<>>, "#000080", "#800000", TRUE) >>

(***************************************************************************)
(* The parameter list of the last sequence among the first n code points.  *)
(***************************************************************************)
LastParams(s, n) ==
  SubSeq(s, LastESC(s, n) + 2, FirstMAfter(s, LastESC(s, n)) - 1)

(***************************************************************************)
(* C4 as claimed: when parse fails, no run flushed before the failing code *)
(* point is part of what parse returns.                                    *)
(***************************************************************************)
C4_NoPartialRunsOnError ==
  (Returned("parse") /\ retErr # "nil") => retTs = <<>>

(***************************************************************************)
(* The positions of a code list that SGR interpretation reads as commands: *)
(* every entry is one command, except that 38 and 48 take the next two     *)
(* entries with them when the first of these is 5, and the next one        *)
(* otherwise; interpretation stops at a 38 or 48 that has fewer than two   *)
(* entries after it.                                                       *)
(***************************************************************************)
Extended == {38, 48}

RECURSIVE CommandPositions(_, _)
CommandPositions(codes, i) ==
  IF i > Len(codes) THEN {}
  ELSE IF codes[i] \in Extended /\ Len(codes) - i < 2 THEN {i}
  ELSE IF codes[i] \in Extended
    THEN {i} \cup CommandPositions(codes, IF codes[i + 1] = 5 THEN i + 3 ELSE i + 2)
  ELSE {i} \cup CommandPositions(codes, i + 1)

AllIntegers(buf) == \A k \in 1..Len(Split(buf)) : AtoiOk(Split(buf)[k])

ExtendedCutShort(codes) ==
  \E k \in CommandPositions(codes, 1) :
    codes[k] \in Extended /\ Len(codes) - k < 2

CSIEndStep ==
  pc = "loop" /\ state = "parseCSI" /\ pos < Len(in) /\ in[pos + 1] = LowerM

(***************************************************************************)
(* C5: on the 'm' that ends a CSI sequence the parse fails (with Atoi's    *)
(* error) if some ';'-separated segment of the parameter buffer is no      *)
(* decimal integer, an empty segment included, and (with parseError) if a  *)
(* 38 or 48 command has fewer than two entries after it; with all segments *)
(* integers and two or more entries after every 38 / 48 command there is   *)
(* no error.                                                               *)
(***************************************************************************)
C5_InvalidParameter ==
  [][CSIEndStep =>
       /\ ~AllIntegers(c) => (err' = "NumError" /\ pc' = "parsed")
       /\ (AllIntegers(c) /\ ExtendedCutShort(csiCodes(c))) =>
             (err' = "parseError" /\ pc' = "parsed")
       /\ (AllIntegers(c) /\ ~ExtendedCutShort(csiCodes(c))) =>
             (err' = "nil" /\ pc' = "loop" /\ state' = "parsePlain")]_vars

C5_Witness ==
  /\ pc = "parsed"
  /\ err = "parseError"
  /\ pos >= 1
  /\ in[pos] = LowerM
  /\ LastParams(in, pos) = JoinCodes(<< 1, 48, 5 >>)
  /\ bold

(***************************************************************************)
(* C6: an escape introducer read in parsePlain leads to parseESC, and any  *)
(* code point other than '[' read there, another escape introducer         *)
(* included, fails the parse with parseError at that code point; the error *)
(* is what the entry point returns.                                        *)
(***************************************************************************)
C6_MalformedEscape ==
  [][/\ (pc = "loop" /\ state = "parsePlain" /\ pos < Len(in) /\ in[pos + 1] = ESC) =>
          (state' = "parseESC" /\ pc' = "loop" /\ err' = "nil")
     /\ (pc = "loop" /\ state = "parseESC" /\ pos < Len(in) /\ in[pos + 1] # LBracket) =>
          (err' = "parseError" /\ pc' = "parsed" /\ pos' = pos + 1)
     /\ (pc = "parsed" /\ err # "nil") => (retErr' = err /\ pos' = pos)]_vars

C6_Witness ==
  /\ pc = "returned"
  /\ retErr = "parseError"
  /\ pos >= 2
  /\ in[pos - 1] = ESC
  /\ in[pos] = ESC
  /\ bold

(***************************************************************************)
(* C7 as claimed: when the input ends inside an escape sequence the parse  *)
(* succeeds and returns exactly the runs flushed before that escape        *)
(* started, with no run for the incomplete sequence.  Every run flushed at *)
(* an escape introducer has text, so every returned run has.               *)
(***************************************************************************)
C7_NoRunForUnterminated ==
  (Returned("parse") /\ pos = Len(in) /\ state \in {"parseESC", "parseCSI"}) =>
     /\ retErr = "nil"
     /\ \A i \in 1..Len(retTs) : retTs[i].text # <<>>

SetMax(S) == CHOOSE x \in S : \A y \in S : y <= x

LastCommand(codes) == codes[SetMax(CommandPositions(codes, 1))]

AfterSequence ==
  /\ pc # "call"
  /\ state = "parsePlain"
  /\ err = "nil"
  /\ LastESC(in, pos) # 0
  /\ AllIntegers(LastParams(in, pos))

(***************************************************************************)
(* C8: after a sequence whose last command is 0 the style is foreground    *)
(* unset, background unset, bold false, whatever it was before, and the    *)
(* run that ends the input there carries that style.                       *)
(***************************************************************************)
C8_ResetRestoresDefault ==
  (AfterSequence /\ LastCommand(csiCodes(LastParams(in, pos))) = 0) =>
     /\ bg = "" /\ fg = "" /\ bold = FALSE
     /\ pc \in {"parsed", "returned"} => DefaultStyle(ts[Len(ts)])

C8_Witness ==
  /\ Returned("parse")
  /\ Len(retTs) = 2
  /\ retTs[1].bold /\ retTs[1].fg # "" /\ retTs[1].bg # ""
  /\ retTs[2].text # <<>>
  /\ DefaultStyle(retTs[2])
  /\ LastCommand(csiCodes(LastParams(in, pos))) = 0

(***************************************************************************)
(* C9: 38;5;N sets the foreground and 48;5;N the background to the colour  *)
(* of index N: the low table for 0..7, the high table for 8..15, the cube  *)
(* colour of r = (N-16)/36, g = (N-16-36r)/6, b = N-16-36r-6g for 16..231, *)
(* the grayscale ramp for 232..255.                                        *)
(***************************************************************************)
Resolve256(n) ==
  IF n \in 0..7 THEN LowColorsTable[n + 1]
  ELSE IF n \in 8..15 THEN HighColorsTable[n - 7]
  ELSE IF n \in 16..231 THEN
    "#" \o CubeColorsTable[((n - 16) \div 36) + 1]
        \o CubeColorsTable[(((n - 16) % 36) \div 6) + 1]
        \o CubeColorsTable[((n - 16) % 6) + 1]
  ELSE GrayscaleColorsTable[n - 231]

C9_IndexedColour ==
  AfterSequence =>
    LET codes == csiCodes(LastParams(in, pos)) IN
      (Len(codes) = 3 /\ codes[2] = 5 /\ codes[3] \in 0..255) =>
         /\ codes[1] = 38 => fg = Resolve256(codes[3])
         /\ codes[1] = 48 => bg = Resolve256(codes[3])

C9_Witness ==
  /\ Returned("parse")
  /\ retTs = << Text(<< LowerA >>, "#00d787", "#800000", TRUE) >>
  /\ csiCodes(LastParams(in, pos)) = << 48, 5, 42 >>

(***************************************************************************)
(* C10: toHTML wraps the escaped text of a run in a span exactly when the  *)
(* run has a background, a foreground or bold; the declarations come in    *)
(* the order background-color, color, font-weight, each exactly when its   *)
(* attribute is set, joined by "; ".                                       *)
(***************************************************************************)
Span(style, escaped) ==
  "<span style=\"" \o style \o "\">" \o escaped \o "</span>"

ExpectedHTML(t) ==
  LET e == EscapeString(t.text)
      bgd == "background-color: " \o t.bg
      fgd == "color: " \o t.fg
      bd == "font-weight: bold"
  IN CASE t.bg = "" /\ t.fg = "" /\ ~t.bold -> e
       [] t.bg # "" /\ t.fg = "" /\ ~t.bold -> Span(bgd, e)
       [] t.bg = "" /\ t.fg # "" /\ ~t.bold -> Span(fgd, e)
       [] t.bg = "" /\ t.fg = "" /\ t.bold -> Span(bd, e)
       [] t.bg # "" /\ t.fg # "" /\ ~t.bold -> Span(bgd \o "; " \o fgd, e)
       [] t.bg # "" /\ t.fg = "" /\ t.bold -> Span(bgd \o "; " \o bd, e)
       [] t.bg = "" /\ t.fg # "" /\ t.bold -> Span(fgd \o "; " \o bd, e)
       [] t.bg # "" /\ t.fg # "" /\ t.bold ->
            Span(bgd \o "; " \o fgd \o "; " \o bd, e)

C10_SpanIffStyled ==
  /\ \A i \in 1..Len(ts) : toHTML(ts[i]) = ExpectedHTML(ts[i])
  /\ (Returned("parseHTML") /\ retErr = "nil" /\ Len(ts) = 1) =>
        retHTML = ExpectedHTML(ts[1])

C10_Witness ==
  /\ Returned("parseHTML")
  /\ Len(ts) = 1
  /\ retHTML = "<span style=\"background-color: #000080; color: #800000; font-weight: bold\">a</span>"

(***************************************************************************)
(* parser.parse as a function of its input: the same handlers, applied to  *)
(* a parser record code point by code point, and func parse on top of it.  *)
(* The result of parserParse is the parser when parser.parse returns.      *)
(***************************************************************************)
Parser(st, runs, tb, cb, style, e) ==
  [state |-> st, ts |-> runs, b |-> tb, c |-> cb,
   bg |-> style.bg, fg |-> style.fg, bold |-> style.bold, err |-> e]

parserStep(p, ch) ==
  IF p.state = "parsePlain" THEN
    IF ch = ESC
    THEN IF plainFlush(p.b)
         THEN [p EXCEPT !.ts = append(p.ts, p.b, p.bg, p.fg, p.bold).ts,
                        !.b = append(p.ts, p.b, p.bg, p.fg, p.bold).b,
                        !.state = "parseESC"]
         ELSE [p EXCEPT !.state = "parseESC"]
    ELSE [p EXCEPT !.b = Append(p.b, ch)]
  ELSE IF p.state = "parseESC" THEN
    IF escOk(ch) THEN [p EXCEPT !.state = "parseCSI"]
    ELSE [p EXCEPT !.state = "nil", !.err = "parseError"]
  ELSE
    IF csiEnd(ch)
    THEN LET r == csiFinal(p.c, Style(p.bg, p.fg, p.bold)) IN
         Parser(IF r.err = "nil" THEN "parsePlain" ELSE "nil",
                p.ts, p.b, <<>>, r.style, r.err)
    ELSE [p EXCEPT !.c = Append(p.c, ch)]

RECURSIVE parserLoop(_, _, _)
parserLoop(s, i, p) ==
  IF p.err # "nil" THEN p
  ELSE IF i > Len(s)
    THEN [p EXCEPT !.ts = append(p.ts, p.b, p.bg, p.fg, p.bold).ts,
                   !.b = append(p.ts, p.b, p.bg, p.fg, p.bold).b]
  ELSE parserLoop(s, i + 1, parserStep(p, s[i]))

parserParse(s) ==
  parserLoop(s, 1, Parser("parsePlain", <<>>, <<>>, <<>>, Style("", "", FALSE), "nil"))

parseFunc(s) ==
  IF emptyInput(s) THEN [ts |-> <<>>, err |-> "nil"]
  ELSE [ts |-> parseResult(parserParse(s).ts, parserParse(s).err),
        err |-> parserParse(s).err]

\* The renderings of the runs, concatenated in run order.
RECURSIVE RenderRuns(_)
RenderRuns(runs) ==
  IF runs = <<>> THEN "" ELSE toHTML(Head(runs)) \o RenderRuns(Tail(runs))

(***************************************************************************)
(* C11: parseHTML fails exactly when parse fails on the same input, and    *)
(* when they succeed the string parseHTML returns is the concatenation, in *)
(* run order, of the renderings of the runs parse returns; also on the     *)
(* zero-length input, where parse returns no run and parseHTML renders the *)
(* parser's single empty run.  (What func parse returns is parseFunc.)     *)
(***************************************************************************)
C11_HTMLIsRenderedRuns ==
  /\ Returned("parse") => (retTs = parseFunc(in).ts /\ retErr = parseFunc(in).err)
  /\ Returned("parseHTML") =>
        /\ (retErr # "nil") <=> (parseFunc(in).err # "nil")
        /\ retErr = "nil" => retHTML = RenderRuns(parseFunc(in).ts)

C11_Witness ==
  /\ Returned("parseHTML")
  /\ retErr = "nil"
  /\ Len(parseFunc(in).ts) = 3
  /\ retHTML = "foo<span style=\"color: #800000\">bar</span>baz"

C11_EmptyWitness ==
  /\ Returned("parseHTML")
  /\ in = <<>>
  /\ Len(ts) = 1
  /\ parseFunc(in).ts = <<>>
  /\ retHTML = ""

(***************************************************************************)
(* The commands of a code list, and the attributes the command table lets  *)
(* a command touch.                                                        *)
(***************************************************************************)
Commands(codes) == { codes[k] : k \in CommandPositions(codes, 1) }

TouchesFg(n) == n = 0 \/ (30 <= n /\ n <= 38) \/ (90 <= n /\ n <= 97)

TouchesBg(n) == n = 0 \/ (40 <= n /\ n <= 48) \/ (100 <= n /\ n <= 107)

TouchesBold(n) == n = 0 \/ n = 1

Supported(n) == TouchesFg(n) \/ TouchesBg(n) \/ TouchesBold(n)

(***************************************************************************)
(* C12: a sequence changes only the attributes its commands name: bold is  *)
(* kept unless a command is 0 or 1 (and 1 sets it), the foreground unless  *)
(* one is 0, 30-38 or 90-97, the background unless one is 0, 40-48 or      *)
(* 100-107; a sequence of codes outside the supported set, negative ones   *)
(* included, changes nothing and raises no error.                          *)
(***************************************************************************)
C12_CommandsChangeOnlyTheirAttribute ==
  [][(CSIEndStep /\ AllIntegers(c)) =>
       LET cmds == Commands(csiCodes(c)) IN
       /\ (\A n \in cmds : ~TouchesFg(n)) => fg' = fg
       /\ (\A n \in cmds : ~TouchesBg(n)) => bg' = bg
       /\ (\A n \in cmds : ~TouchesBold(n)) => bold' = bold
       /\ cmds = {1} => bold' = TRUE
       /\ (\A n \in cmds : ~Supported(n)) =>
             (err' = "nil" /\ state' = "parsePlain")]_vars

C12_Witness ==
  /\ Returned("parse")
  /\ state = "parsePlain"
  /\ bg = "#000080"
  /\ fg = "#00ffff"
  /\ bold
  /\ pos >= 1
  /\ LastESC(in, pos) > 1
  /\ csiCodes(LastParams(in, pos)) = << 96 >>

(***************************************************************************)
(* The style that the complete sequences among the first n code points of  *)
(* s give, applied in input order from the default style, each list left   *)
(* to right; a sequence not complete by n contributes nothing.  And where  *)
(* the last complete sequence among the first n code points ends.          *)
(***************************************************************************)
RECURSIVE StyleFrom(_, _, _, _)
StyleFrom(s, k, n, st) ==
  IF k > n THEN st
  ELSE IF s[k] # ESC THEN StyleFrom(s, k + 1, n, st)
  ELSE IF FirstMAfter(s, k) = 0 \/ FirstMAfter(s, k) > n THEN st
  ELSE StyleFrom(s, FirstMAfter(s, k) + 1, n,
                 csiFinal(SubSeq(s, k + 2, FirstMAfter(s, k) - 1), st).style)

StyleAt(s, n) == StyleFrom(s, 1, n, Style("", "", FALSE))

LastSequenceEnd(s, n) ==
  IF LastESC(s, n) = 0 THEN 0 ELSE FirstMAfter(s, LastESC(s, n))

RunStyle(t) == Style(t.bg, t.fg, t.bold)

(***************************************************************************)
(* C13: a run emitted in parsePlain holds the text since the last complete *)
(* sequence under the style of all the complete sequences before it,       *)
(* applied in input order; the run emitted at the end of the input carries *)
(* that style too; and no later step changes a run already emitted, so the *)
(* commands of a sequence after a run's text never reach it.               *)
(***************************************************************************)
C13_RunCarriesPrecedingStyle ==
  [][(pc = "loop" /\ err = "nil") =>
       /\ Len(ts') >= Len(ts)
       /\ SubSeq(ts', 1, Len(ts)) = ts
       /\ ts' # ts =>
            /\ Len(ts') = Len(ts) + 1
            /\ RunStyle(ts'[Len(ts')]) = StyleAt(in, pos)
            /\ state = "parsePlain" =>
                 ts'[Len(ts')].text = SubSeq(in, LastSequenceEnd(in, pos) + 1, pos)]_vars

C13_Witness ==
  /\ Returned("parse")
  /\ retErr = "nil"
  /\ retTs = << Text(Str(<< "f", "o", "o" >>), "", "#808000", TRUE) >>

(***************************************************************************)
(* The command table applied to a code list from position i: one entry is  *)
(* one command, except that 38 and 48 followed by 5 and an index N take    *)
(* three entries and set the foreground / background to the colour of N    *)
(* (none when N is no index), and 38 and 48 followed by anything else take *)
(* that entry with them and do nothing.                                    *)
(***************************************************************************)
ResolveOrEmpty(n) == IF n \in 0..255 THEN Resolve256(n) ELSE ""

TableCommand(n, st) ==
  IF n = 0 THEN Style("", "", FALSE)
  ELSE IF n = 1 THEN Style(st.bg, st.fg, TRUE)
  ELSE IF n \in 30..37 THEN Style(st.bg, LowColorsTable[n - 29], st.bold)
  ELSE IF n \in 40..47 THEN Style(LowColorsTable[n - 39], st.fg, st.bold)
  ELSE IF n \in 90..97 THEN Style(st.bg, HighColorsTable[n - 89], st.bold)
  ELSE IF n \in 100..107 THEN Style(HighColorsTable[n - 99], st.fg, st.bold)
  ELSE st

TableExtended(n, index, st) ==
  IF n = 38 THEN Style(st.bg, ResolveOrEmpty(index), st.bold)
  ELSE Style(ResolveOrEmpty(index), st.fg, st.bold)

RECURSIVE TableApply(_, _, _)
TableApply(codes, i, st) ==
  IF i > Len(codes) THEN st
  ELSE IF codes[i] \in Extended /\ Len(codes) - i < 2 THEN st
  ELSE IF codes[i] \in Extended /\ codes[i + 1] = 5
    THEN TableApply(codes, i + 3, TableExtended(codes[i], codes[i + 2], st))
  ELSE IF codes[i] \in Extended THEN TableApply(codes, i + 2, st)
  ELSE TableApply(codes, i + 1, TableCommand(codes[i], st))

HasIndexedColour(codes) ==
  \E k \in CommandPositions(codes, 1) :
    codes[k] \in Extended /\ Len(codes) - k >= 2 /\ codes[k + 1] = 5

CSIEndsWell == CSIEndStep /\ AllIntegers(c) /\ ~ExtendedCutShort(csiCodes(c))

(***************************************************************************)
(* C14: in a list with 38 (or 48), 5, N the three entries are one command  *)
(* that sets the foreground (or background) to the colour of N; the 5 and  *)
(* the N are not commands of their own, and interpretation continues with  *)
(* the entry after N, every other entry being one command.                 *)
(***************************************************************************)
C14_IndexedColourTakesThreeEntries ==
  [][(CSIEndsWell /\ HasIndexedColour(csiCodes(c))) =>
       /\ err' = "nil"
       /\ Style(bg', fg', bold') = TableApply(csiCodes(c), 1, Style(bg, fg, bold))]_vars

C14_Witness ==
  /\ Returned("parse")
  /\ retErr = "nil"
  /\ retTs = << Text(Str(<< "w", "o", "r", "d" >>), "#008000", "#800000", FALSE) >>

(***************************************************************************)
(* C15: 38;5;N (or 48;5;N) with N outside 0..255 leaves the foreground (or *)
(* background) unset, whatever it was, keeps the other channel and bold,   *)
(* and raises no error.                                                    *)
(***************************************************************************)
C15_IndexOutOfRangeClears ==
  [][(CSIEndStep /\ AllIntegers(c) /\ Len(csiCodes(c)) = 3
        /\ csiCodes(c)[1] \in Extended /\ csiCodes(c)[2] = 5
        /\ csiCodes(c)[3] \notin 0..255) =>
       /\ err' = "nil"
       /\ state' = "parsePlain"
       /\ bold' = bold
       /\ csiCodes(c)[1] = 38 => (fg' = "" /\ bg' = bg)
       /\ csiCodes(c)[1] = 48 => (bg' = "" /\ fg' = fg)]_vars

C15_Witness ==
  /\ Returned("parse")
  /\ retErr = "nil"
  /\ retTs = << Text(<< LowerA >>, "#000080", "", TRUE) >>
  /\ csiCodes(LastParams(in, pos)) = << 38, 5, 256 >>

(***************************************************************************)
(* The text of s after its last escape sequence: all of s when it holds no *)
(* escape introducer, nothing when the last sequence is not terminated.    *)
(***************************************************************************)
TextAfterLastEscape(s) ==
  IF LastESC(s, Len(s)) = 0 THEN s
  ELSE IF FirstMAfter(s, LastESC(s, Len(s))) = 0 THEN <<>>
  ELSE SubSeq(s, FirstMAfter(s, LastESC(s, Len(s))) + 1, Len(s))

Parsed == pc \in {"parsed", "returned"} /\ entry # "none" /\ err = "nil"

NonFinalRunsHaveText == \A i \in 1..(Len(ts) - 1) : ts[i].text # <<>>

(***************************************************************************)
(* C16 as claimed, on the inputs that end in parsePlain: every non-final   *)
(* run has text, and the final run is of empty text only when the input is *)
(* empty.                                                                  *)
(***************************************************************************)
C16_EmptyRunOnlyForEmptyInput ==
  /\ NonFinalRunsHaveText
  /\ (Returned("parse") /\ retErr = "nil" /\ state = "parsePlain"
        /\ Len(retTs) >= 1 /\ retTs[Len(retTs)].text = <<>>) =>
        in = <<>>

(***************************************************************************)
(* C16 amended: every non-final run has text, and the final run is of      *)
(* empty text only when the input has no text after its last escape        *)
(* sequence: the input is empty or ends with an escape sequence.           *)
(***************************************************************************)
C16_EmptyRunOnlyWithoutTrailingText ==
  /\ NonFinalRunsHaveText
  /\ (Parsed /\ Len(ts) >= 1 /\ ts[Len(ts)].text = <<>>) =>
        TextAfterLastEscape(in) = <<>>
  /\ Returned("parse") => retTs = (IF in = <<>> THEN <<>> ELSE ts)

C16_Witness ==
  /\ Returned("parse")
  /\ retErr = "nil"
  /\ state = "parsePlain"
  /\ in # <<>>
  /\ retTs = << Text(<< LowerA >>, "", "", FALSE), Text(<<>>, "#000080", "", TRUE) >>

(***************************************************************************)
(* C17: while the parse has not failed the state is parsePlain, parseESC   *)
(* or parseCSI; the text buffer is empty in parseESC and parseCSI and the  *)
(* parameter buffer in parsePlain and parseESC; the state changes only     *)
(* from parsePlain to parseESC on the escape code point, from parseESC to  *)
(* parseCSI on '[' and from parseCSI to parsePlain on 'm'; and the style   *)
(* changes only on that last change.                                       *)
(***************************************************************************)
Modes == {"parsePlain", "parseESC", "parseCSI"}

ParserLive == pc = "loop" \/ (Parsed /\ ~(entry = "parse" /\ in = <<>>))

ModeInvariant ==
  ParserLive =>
    /\ state \in Modes
    /\ state \in {"parseESC", "parseCSI"} => b = <<>>
    /\ state \in {"parsePlain", "parseESC"} => c = <<>>

ModeStep ==
  (pc = "loop" /\ err' = "nil") =>
    /\ state' # state =>
         \/ state = "parsePlain" /\ in[pos + 1] = ESC /\ state' = "parseESC"
         \/ state = "parseESC" /\ in[pos + 1] = LBracket /\ state' = "parseCSI"
         \/ state = "parseCSI" /\ in[pos + 1] = LowerM /\ state' = "parsePlain"
    /\ << bg', fg', bold' >> # << bg, fg, bold >> =>
         (state = "parseCSI" /\ state' = "parsePlain")

C17_ModesAndBuffers == [](ModeInvariant) /\ [][ModeStep]_vars

C17_Witness ==
  /\ pc = "loop"
  /\ state = "parseCSI"
  /\ c # <<>>
  /\ b = <<>>
  /\ Len(ts) = 2
  /\ bold

(***************************************************************************)
(* C18: a list that starts with 38 or 48, then an entry other than 5, then *)
(* at least one more entry: the first two entries change nothing and raise *)
(* no error, and interpretation goes on with the third entry as a command  *)
(* (38;2;31 sets the foreground to LowColors[1], 38;2;0 resets the style). *)
(* The outcome is that of the list from the third entry on.                *)
(***************************************************************************)
SkipsEntry(codes) ==
  Len(codes) >= 3 /\ codes[1] \in Extended /\ codes[2] # 5

AfterSkip(codes) == SubSeq(codes, 3, Len(codes))

C18_NonIndexedExtendedSkipsOneEntry ==
  [][(CSIEndStep /\ AllIntegers(c) /\ SkipsEntry(csiCodes(c))) =>
       IF ExtendedCutShort(AfterSkip(csiCodes(c)))
       THEN err' = "parseError"
       ELSE /\ err' = "nil"
            /\ Style(bg', fg', bold') =
                 TableApply(AfterSkip(csiCodes(c)), 1, Style(bg, fg, bold))
            /\ (csiCodes(c) = << 38, 2, 31 >> => fg' = LowColors(1))
            /\ (csiCodes(c) = << 38, 2, 0 >> =>
                  Style(bg', fg', bold') = Style("", "", FALSE))]_vars

C18_Witness ==
  /\ Returned("parse")
  /\ in = SGR(<< 1, 36, 44 >>) \o SGR(<< 38, 2, 31 >>) \o << LowerA >>
  /\ retErr = "nil"
  /\ retTs = << Text(<< LowerA >>, "#000080", "#800000", TRUE) >>

C18_ResetWitness ==
  /\ Returned("parse")
  /\ in = SGR(<< 1, 36, 44 >>) \o SGR(<< 48, 2, 0 >>) \o << LowerA >>
  /\ retTs = << Text(<< LowerA >>, "", "", FALSE) >>

(***************************************************************************)
(* The index expressions of color8bit and of the SGR loop, collected       *)
(* instead of evaluated: every read of a table or of the code list that    *)
(* the loop performs on a list, as a record of the table's name and the    *)
(* index.  Table indexes count from 0 as in the source; positions of the   *)
(* code list count from 1 as the sequences here do.                        *)
(***************************************************************************)
Read(table, index) == [table |-> table, index |-> index]

cubeIndexesFlat(n) ==
  << (n - 16) \div 36,
     (n - 16) \div 6,
     n - 16 - 36 * ((n - 16) \div 36) - 6 * ((n - 16 - 36 * ((n - 16) \div 36)) \div 6) >>

cubeIndexes(n) ==
  << (n - 16) \div 36,
     (n - 16 - 36 * ((n - 16) \div 36)) \div 6,
     n - 16 - 36 * ((n - 16) \div 36) - 6 * ((n - 16 - 36 * ((n - 16) \div 36)) \div 6) >>

color8bitReads(n) ==
  IF 0 <= n /\ n <= 7 THEN { Read("LowColors", n) }
  ELSE IF 8 <= n /\ n <= 15 THEN { Read("HighColors", n - 8) }
  ELSE IF 16 <= n /\ n <= 231
    THEN { Read("CubeColors", cubeIndexes(n)[k]) : k \in 1..3 }
  ELSE IF 232 <= n /\ n <= 255 THEN { Read("GrayscaleColors", n - 232) }
  ELSE {}

RECURSIVE sgrReads(_, _)
sgrReads(codes, i) ==
  IF i > Len(codes) THEN {}
  ELSE { Read("codes", i) } \cup
    LET cd == codes[i] IN
    IF (30 <= cd /\ cd <= 37)
      THEN { Read("LowColors", cd - 30) } \cup sgrReads(codes, i + 1)
    ELSE IF (40 <= cd /\ cd <= 47)
      THEN { Read("LowColors", cd - 40) } \cup sgrReads(codes, i + 1)
    ELSE IF cd = 38 \/ cd = 48 THEN
      IF extendedOk(codes, i)
      THEN { Read("codes", i + 1) } \cup
           IF codes[i + 1] = 5
           THEN { Read("codes", i + 2) } \cup color8bitReads(codes[i + 2])
                  \cup sgrReads(codes, i + 3)
           ELSE sgrReads(codes, i + 2)
      ELSE {}
    ELSE IF 90 <= cd /\ cd <= 97
      THEN { Read("HighColors", cd - 90) } \cup sgrReads(codes, i + 1)
    ELSE IF 100 <= cd /\ cd <= 107
      THEN { Read("HighColors", cd - 100) } \cup sgrReads(codes, i + 1)
    ELSE sgrReads(codes, i + 1)

(***************************************************************************)
(* C19: for every list of integers the SGR loop reads no table and no list *)
(* entry out of range: the LowColors and HighColors indexes are in 0..7,   *)
(* the GrayscaleColors indexes in 0..23, the cube components r, g, b of an *)
(* index N in 16..231 are in 0..5 with 36r + 6g + b = N - 16, and every    *)
(* position of the code list read is one of its entries.                   *)
(***************************************************************************)
InRange(r, codes) ==
  /\ r.table = "LowColors" => r.index \in 0..7 /\ r.index < Len(LowColorsTable)
  /\ r.table = "HighColors" => r.index \in 0..7 /\ r.index < Len(HighColorsTable)
  /\ r.table = "GrayscaleColors" =>
       r.index \in 0..23 /\ r.index < Len(GrayscaleColorsTable)
  /\ r.table = "CubeColors" => r.index \in 0..5 /\ r.index < Len(CubeColorsTable)
  /\ r.table = "codes" => r.index \in 1..Len(codes)

CubeIndexed(codes) ==
  { codes[k + 2] : k \in { j \in CommandPositions(codes, 1) :
      codes[j] \in Extended /\ Len(codes) - j >= 2 /\ codes[j + 1] = 5
        /\ codes[j + 2] \in 16..231 } }

C19_NoIndexOutOfRange ==
  [][(CSIEndStep /\ AllIntegers(c)) =>
       /\ \A r \in sgrReads(csiCodes(c), 1) : InRange(r, csiCodes(c))
       /\ \A n \in CubeIndexed(csiCodes(c)) :
            /\ \A k \in 1..3 : cubeIndexes(n)[k] \in 0..5
            /\ 36 * cubeIndexes(n)[1] + 6 * cubeIndexes(n)[2] + cubeIndexes(n)[3]
                 = n - 16]_vars

C19_Witness ==
  /\ Returned("parse")
  /\ retErr = "nil"
  /\ in = SGR(<< 1, 31, 44 >>) \o SGR(<< 48, 5, 231 >>) \o << LowerA >>
  /\ retTs = << Text(<< LowerA >>, "#ffffff", "#800000", TRUE) >>

(***************************************************************************)
(* func grep and grepResult.grep: the search of a directory.  The loop of  *)
(* func grep makes one grepResult per entry that is no directory and       *)
(* starts a goroutine on it; a goroutine opens and stats its file, scans   *)
(* it line by line, keeps the lines whose plain text contains the query    *)
(* and stores their rendering in its grepResult.  Every parse call has a   *)
(* parser of its own, consumed one code point per step so that the calls   *)
(* of different goroutines interleave.  A file is the list of its lines; a *)
(* record is named by the position of its entry in the listing, which      *)
(* stands for File, URL and Name alike; ModTime is a time other than the   *)
(* zero time 0.                                                            *)
(***************************************************************************)
MaxEntries == 2

Entry(isDir, fl, ls) == [dir |-> isDir, fails |-> fl, lines |-> ls]

FileLines ==
  { <<>>,
    << << LowerA >> >>,
    << SGR(<< 1 >>) \o << LowerA >> >>,
    << << LowerB >>, << LowerA, LowerB >> >> }

EntryKinds ==
  { Entry(TRUE, "none", <<>>), Entry(FALSE, "open", <<>>),
    Entry(FALSE, "stat", <<>>) }
    \cup { Entry(FALSE, "none", ls) : ls \in FileLines }

Listings == UNION { [1..n -> EntryKinds] : n \in 0..MaxEntries }

Queries == { << LowerA >>, << LowerB >> }

ModTime(k) == k

NoResult == [File |-> 0, URL |-> 0, Name |-> 0, HTML |-> "", Mtime |-> 0]

Result(k) == [File |-> k, URL |-> k, Name |-> k, HTML |-> "", Mtime |-> 0]

zeroParser == Parser("nil", <<>>, <<>>, <<>>, Style("", "", FALSE), "nil")

newParser == Parser("parsePlain", <<>>, <<>>, <<>>, Style("", "", FALSE), "nil")

parserFinish(p) ==
  IF p.err # "nil" THEN p
  ELSE [p EXCEPT !.ts = append(p.ts, p.b, p.bg, p.fg, p.bold).ts,
                 !.b = append(p.ts, p.b, p.bg, p.fg, p.bold).b]

\* parseText: the plain text of the runs, nothing when the parse failed.
parseTextOf(p) == IF p.err # "nil" THEN <<>> ELSE PlainText(p.ts)

parseHTMLOf(p) == IF p.err # "nil" THEN "" ELSE JoinHTML(p.ts)

\* strings.Contains
Contains(s, q) ==
  \E i \in 1..(Len(s) - Len(q) + 1) : SubSeq(s, i, i + Len(q) - 1) = q

joinedEarly(w) == TRUE

\* wg.Wait returns when the counter is zero.
joined(w) == w = 0

parseIdle ==
  /\ in = <<>>
  /\ pos = 0
  /\ entry = "none"
  /\ pc = "call"
  /\ state = "nil"
  /\ ts = <<>>
  /\ b = <<>>
  /\ c = <<>>
  /\ bg = ""
  /\ fg = ""
  /\ bold = FALSE
  /\ err = "nil"
  /\ retTs = <<>>
  /\ retHTML = ""
  /\ retErr = "nil"

parseVars == << in, pos, entry, pc, state, ts, b, c, bg, fg, bold, err,
                retTs, retHTML, retErr >>

GrepInit ==
  /\ parseIdle
  /\ entries \in Listings
  /\ query \in Queries
  /\ gpc = "call"
  /\ gi = 0
  /\ grs = <<>>
  /\ recs = [k \in DOMAIN entries |-> NoResult]
  /\ wg = 0
  /\ tpc = [k \in DOMAIN entries |-> "none"]
  /\ tline = [k \in DOMAIN entries |-> 0]
  /\ tpos = [k \in DOMAIN entries |-> 0]
  /\ thtml = [k \in DOMAIN entries |-> <<>>]
  /\ parsers = [k \in DOMAIN entries |-> zeroParser]
  /\ gret = <<>>
  /\ gerr = "nil"

\* os.ReadDir fails: grep returns the error and no result.
grepReadDirFails ==
  /\ gpc = "call"
  /\ gpc' = "returned"
  /\ gerr' = "error"
  /\ UNCHANGED << parseVars, entries, query, gi, grs, recs, wg,
                  tpc, tline, tpos, thtml, parsers, gret >>

grepReadDir ==
  /\ gpc = "call"
  /\ gpc' = "range"
  /\ gi' = 1
  /\ UNCHANGED << parseVars, entries, query, grs, recs, wg,
                  tpc, tline, tpos, thtml, parsers, gret, gerr >>

\* An entry that is a directory is passed over.
grepSkipDir ==
  /\ gpc = "range"
  /\ gi <= Len(entries)
  /\ entries[gi].dir
  /\ gi' = gi + 1
  /\ UNCHANGED << parseVars, entries, query, gpc, grs, recs, wg,
                  tpc, tline, tpos, thtml, parsers, gret, gerr >>

\* Any other entry gets a grepResult, wg.Add(1), a goroutine, and a place in grs.
grepGo ==
  /\ gpc = "range"
  /\ gi <= Len(entries)
  /\ ~entries[gi].dir
  /\ recs' = [recs EXCEPT ![gi] = Result(gi)]
  /\ wg' = wg + 1
  /\ tpc' = [tpc EXCEPT ![gi] = "open"]
  /\ grs' = Append(grs, gi)
  /\ gi' = gi + 1
  /\ UNCHANGED << parseVars, entries, query, gpc,
                  tline, tpos, thtml, parsers, gret, gerr >>

grepRangeEnd ==
  /\ gpc = "range"
  /\ gi > Len(entries)
  /\ gpc' = "wait"
  /\ UNCHANGED << parseVars, entries, query, gi, grs, recs, wg,
                  tpc, tline, tpos, thtml, parsers, gret, gerr >>

grepWait ==
  /\ gpc = "wait"
  /\ joined(wg)
  /\ gpc' = "returned"
  /\ gret' = grs
  /\ UNCHANGED << parseVars, entries, query, gi, grs, recs, wg,
                  tpc, tline, tpos, thtml, parsers, gerr >>

\* os.Open and f.Stat: a failure ends the goroutine's grep; otherwise Mtime is set.
taskOpen(k) ==
  /\ tpc[k] = "open"
  /\ IF entries[k].fails # "none"
     THEN /\ tpc' = [tpc EXCEPT ![k] = "finish"]
          /\ UNCHANGED << recs, tline, thtml >>
     ELSE /\ recs' = [recs EXCEPT ![k].Mtime = ModTime(k)]
          /\ thtml' = [thtml EXCEPT ![k] = <<>>]
          /\ tline' = [tline EXCEPT ![k] = 1]
          /\ tpc' = [tpc EXCEPT ![k] = "scan"]
  /\ UNCHANGED << parseVars, entries, query, gpc, gi, grs, wg,
                  tpos, parsers, gret, gerr >>

\* scanner.Scan: the next line goes to parseText; after the last, html to parseHTML.
taskScan(k) ==
  /\ tpc[k] = "scan"
  /\ parsers' = [parsers EXCEPT ![k] = newParser]
  /\ tpos' = [tpos EXCEPT ![k] = 0]
  /\ tpc' = [tpc EXCEPT ![k] =
               IF tline[k] <= Len(entries[k].lines) THEN "parseText" ELSE "parseHTML"]
  /\ UNCHANGED << parseVars, entries, query, gpc, gi, grs, recs, wg,
                  tline, thtml, gret, gerr >>

taskParseText(k) ==
  /\ tpc[k] = "parseText"
  /\ LET line == entries[k].lines[tline[k]]
         p == parsers[k]
     IN IF p.err = "nil" /\ tpos[k] < Len(line)
        THEN /\ parsers' = [parsers EXCEPT ![k] = parserStep(p, line[tpos[k] + 1])]
             /\ tpos' = [tpos EXCEPT ![k] = tpos[k] + 1]
             /\ UNCHANGED << tpc, tline, thtml >>
        ELSE /\ parsers' = [parsers EXCEPT ![k] = parserFinish(p)]
             /\ thtml' = [thtml EXCEPT ![k] =
                  IF Contains(parseTextOf(parserFinish(p)), query)
                  THEN thtml[k] \o line \o << Newline >>
                  ELSE thtml[k]]
             /\ tline' = [tline EXCEPT ![k] = tline[k] + 1]
             /\ tpc' = [tpc EXCEPT ![k] = "scan"]
             /\ UNCHANGED tpos
  /\ UNCHANGED << parseVars, entries, query, gpc, gi, grs, recs, wg, gret, gerr >>

taskParseHTML(k) ==
  /\ tpc[k] = "parseHTML"
  /\ LET p == parsers[k]
     IN IF p.err = "nil" /\ tpos[k] < Len(thtml[k])
        THEN /\ parsers' = [parsers EXCEPT ![k] = parserStep(p, thtml[k][tpos[k] + 1])]
             /\ tpos' = [tpos EXCEPT ![k] = tpos[k] + 1]
             /\ UNCHANGED << tpc, recs >>
        ELSE /\ parsers' = [parsers EXCEPT ![k] = parserFinish(p)]
             /\ recs' = [recs EXCEPT ![k].HTML = parseHTMLOf(parserFinish(p))]
             /\ tpc' = [tpc EXCEPT ![k] = "finish"]
             /\ UNCHANGED tpos
  /\ UNCHANGED << parseVars, entries, query, gpc, gi, grs, wg,
                  tline, thtml, gret, gerr >>

taskDone(k) ==
  /\ tpc[k] = "finish"
  /\ wg' = wg - 1
  /\ tpc' = [tpc EXCEPT ![k] = "done"]
  /\ UNCHANGED << parseVars, entries, query, gpc, gi, grs, recs,
                  tline, tpos, thtml, parsers, gret, gerr >>

GrepNext ==
  \/ grepReadDirFails
  \/ grepReadDir
  \/ grepSkipDir
  \/ grepGo
  \/ grepRangeEnd
  \/ grepWait
  \/ \E k \in DOMAIN entries : taskOpen(k)
  \/ \E k \in DOMAIN entries : taskScan(k)
  \/ \E k \in DOMAIN entries : taskParseText(k)
  \/ \E k \in DOMAIN entries : taskParseHTML(k)
  \/ \E k \in DOMAIN entries : taskDone(k)

GrepSpec == GrepInit /\ [][GrepNext]_vars

(***************************************************************************)
(* What one file gives when it is searched alone, start to end: the lines  *)
(* whose text without escape sequences contains the query, each with its   *)
(* newline, parsed and rendered in one go.                                 *)
(***************************************************************************)
RECURSIVE FilePositions(_, _)
FilePositions(es, k) ==
  IF k > Len(es) THEN <<>>
  ELSE (IF es[k].dir THEN <<>> ELSE << k >>) \o FilePositions(es, k + 1)

RECURSIVE MatchingLines(_, _)
MatchingLines(ls, q) ==
  IF ls = <<>> THEN <<>>
  ELSE (IF Contains(StripSGR(Head(ls)), q) THEN Head(ls) \o << Newline >> ELSE <<>>)
         \o MatchingLines(Tail(ls), q)

SequentialResult(k) ==
  IF entries[k].fails # "none" THEN Result(k)
  ELSE [Result(k) EXCEPT
          !.Mtime = ModTime(k),
          !.HTML = parseHTMLOf(parserParse(MatchingLines(entries[k].lines, query)))]

GrepJoined ==
  (gpc = "returned" /\ gerr = "nil") =>
    /\ wg = 0
    /\ \A k \in DOMAIN entries : tpc[k] \in {"none", "done"}
    /\ gret = FilePositions(entries, 1)
    /\ \A i \in 1..Len(gret) : recs[gret[i]] = SequentialResult(gret[i])

OneTaskPerFile ==
  \A k \in DOMAIN entries : (tpc[k] # "none") <=> (k < gi /\ ~entries[k].dir)

OwnRecordOnly ==
  \A k \in DOMAIN entries : recs'[k] # recs[k] => tpc'[k] # tpc[k]

(***************************************************************************)
(* C20: grep starts one goroutine per entry that is no directory and       *)
(* returns only when all of them have finished; the list it returns has    *)
(* one result per such entry, in the order of the listing; a record        *)
(* changes only in a step of its own goroutine; and whatever the           *)
(* interleaving, each record is what searching its file alone gives.       *)
(***************************************************************************)
C20_GrepJoinsItsTasks ==
  [](GrepJoined /\ OneTaskPerFile) /\ [][OwnRecordOnly]_vars

C20_Witness ==
  /\ gpc = "returned"
  /\ query = << LowerA >>
  /\ Len(gret) = 2
  /\ recs[1].HTML = "<span style=\"font-weight: bold\">a\n</span>"
  /\ recs[2].HTML = "a\n"
  /\ recs[2].Mtime = ModTime(2)

====
